---------------------------- MODULE Spec2Model ----------------------------
(***************************************************************************)
(* Model of the lilylet markdown-it plugin (src/src/index.ts).             *)
(*                                                                         *)
(* Text is a sequence of one-character strings.  A markup fragment is the  *)
(* sequence of its pieces: the literal chunks of the template strings of   *)
(* the source (multi-character strings such as "<div class=\"") and the    *)
(* characters of the interpolated values.  String concatenation is \o.     *)
(***************************************************************************)
EXTENDS Integers, Sequences, FiniteSets, TLC

(***************************************************************************)
(* Bounds of the model.                                                    *)
(***************************************************************************)
MaxInfoLen == 3
MaxBlocks == 2
MaxInFlight == 1
MaxMeasures == 41

(***************************************************************************)
(* Strings.                                                                *)
(***************************************************************************)
Str_lyl == <<"l", "y", "l">>
Str_lilylet == <<"l", "i", "l", "y", "l", "e", "t">>
Str_js == <<"j", "s">>
DotPlay == <<".", "p", "l", "a", "y">>
PlayColon == <<"p", "l", "a", "y", ":">>

LowerChar(ch) ==
  CASE ch = "L" -> "l"
    [] ch = "Y" -> "y"
    [] ch = "I" -> "i"
    [] ch = "E" -> "e"
    [] ch = "T" -> "t"
    [] ch = "P" -> "p"
    [] ch = "A" -> "a"
    [] ch = "J" -> "j"
    [] ch = "S" -> "s"
    [] OTHER -> ch

\* String.prototype.toLowerCase
toLowerCase(s) == [i \in 1..Len(s) |-> LowerChar(s[i])]

\* String.prototype.endsWith
endsWith(s, suffix) ==
  /\ Len(s) >= Len(suffix)
  /\ SubSeq(s, Len(s) - Len(suffix) + 1, Len(s)) = suffix

\* String.prototype.slice(0, -n)
sliceEnd(s, n) == IF Len(s) > n THEN SubSeq(s, 1, Len(s) - n) ELSE <<>>

\* Array.prototype.includes
includes(arr, x) == \E i \in 1..Len(arr) : arr[i] = x

WhiteSpace == {" ", "\n"}

RECURSIVE trimStart(_)
trimStart(s) ==
  IF s # <<>> /\ Head(s) \in WhiteSpace THEN trimStart(Tail(s)) ELSE s

RECURSIVE trimEnd(_)
trimEnd(s) ==
  IF s # <<>> /\ s[Len(s)] \in WhiteSpace
    THEN trimEnd(SubSeq(s, 1, Len(s) - 1))
    ELSE s

\* String.prototype.trim
trim(s) == trimEnd(trimStart(s))

(***************************************************************************)
(* DEFAULT_OPTIONS                                                         *)
(***************************************************************************)
DefaultAliases == <<Str_lilylet, Str_lyl>>

(***************************************************************************)
(* parseLanguageTag                                                        *)
(***************************************************************************)
parseLanguageTagNoFold(info, aliases) ==
  IF endsWith(info, DotPlay)
    THEN [isLilylet |-> includes(aliases, sliceEnd(info, 5)), isPlayable |-> TRUE]
    ELSE [isLilylet |-> includes(aliases, info), isPlayable |-> FALSE]

parseLanguageTag(info, aliases) ==
  LET lower == toLowerCase(info) IN
  IF endsWith(lower, DotPlay)
    THEN [isLilylet |-> includes(aliases, sliceEnd(lower, 5)), isPlayable |-> TRUE]
    ELSE [isLilylet |-> includes(aliases, lower), isPlayable |-> FALSE]

(***************************************************************************)
(* escapeHtml                                                              *)
(***************************************************************************)
EscapeChar(ch) ==
  CASE ch = "&" -> <<"&", "a", "m", "p", ";">>
    [] ch = "<" -> <<"&", "l", "t", ";">>
    [] ch = ">" -> <<"&", "g", "t", ";">>
    [] ch = "\"" -> <<"&", "q", "u", "o", "t", ";">>
    [] ch = "'" -> <<"&", "#", "0", "3", "9", ";">>
    [] OTHER -> <<ch>>

RECURSIVE escapeHtml(_)
escapeHtml(str) ==
  IF str = <<>> THEN <<>> ELSE EscapeChar(Head(str)) \o escapeHtml(Tail(str))


(***************************************************************************)
(* DEFAULT_OPTIONS and the option merge of lilyletPlugin / prerender.      *)
(* verovioToolkit is modelled by its presence and by whether the handle    *)
(* has the optional setOptions capability.                                 *)
(***************************************************************************)
NoToolkit == [present |-> FALSE, setOptions |-> FALSE]

DEFAULT_OPTIONS ==
  [verovioToolkit |-> NoToolkit,
   verovioOptions |-> [k \in {"scale", "adjustPageHeight", "pageWidth"} |->
                         CASE k = "scale" -> 40
                           [] k = "adjustPageHeight" -> TRUE
                           [] k = "pageWidth" -> 2000],
   langAliases |-> DefaultAliases,
   containerClass |-> <<"lilylet-container">>,
   errorClass |-> <<"lilylet-error">>,
   includeSource |-> TRUE]

\* object spread { ...a, ...b }
Spread(a, b) ==
  [k \in DOMAIN a \cup DOMAIN b |-> IF k \in DOMAIN b THEN b[k] ELSE a[k]]

\* { ...DEFAULT_OPTIONS, ...options, verovioOptions: { ...defaults, ...options.verovioOptions } }
ResolveOptions(options) ==
  LET given == IF "verovioOptions" \in DOMAIN options
                 THEN options.verovioOptions ELSE <<>>
      merged == Spread(DEFAULT_OPTIONS, options)
  IN [merged EXCEPT !.verovioOptions = Spread(DEFAULT_OPTIONS.verovioOptions, given)]

(***************************************************************************)
(* Values a collaborator can throw, and the message the catch clause of    *)
(* renderLilylet derives from them.                                        *)
(***************************************************************************)
Str_bad == <<"b", "a", "d", "<">>
Str_null == <<"n", "u", "l", "l">>
Str_log == <<"l", "o", "g", "&">>

ErrorOf(msg) == [kind |-> "Error", message |-> msg]
StringOf(s) == [kind |-> "string", value |-> s]
NullValue == [kind |-> "null"]

Thrown == {ErrorOf(Str_bad), StringOf(Str_bad), NullValue}

\* String(value)
ToStr(v) ==
  CASE v.kind = "string" -> v.value
    [] v.kind = "null" -> Str_null
    [] OTHER -> <<"E", "r", "r", "o", "r", ":", " ">> \o v.message

\* error instanceof Error ? error.message : String(error)
errorMessage(error) ==
  IF error.kind = "Error" THEN error.message ELSE ToStr(error)

(***************************************************************************)
(* The collaborators: what the encoder produces for a document and what    *)
(* the rasterizer draws for loaded data.                                   *)
(***************************************************************************)
MeiOf(doc) == <<"<", "m", "e", "i", ">">> \o doc.text
SvgOf(mei) == <<"<svg>">> \o mei \o <<"</svg>">>

Return(v, calls) == [kind |-> "return", value |-> v, calls |-> calls]
Throw(e, calls) == [kind |-> "throw", value |-> e, calls |-> calls]

Call(fn, arg) == [fn |-> fn, arg |-> arg]

\* a page height that rounds the page count down
PageHeightFloor(measureCount) ==
  LET pages == measureCount \div 20
  IN IF pages * 2000 > 2000 THEN pages * 2000 ELSE 2000

\* Math.max(basePageHeight, Math.ceil(measureCount / measuresPerPage) * basePageHeight)
PageHeight(measureCount) ==
  LET basePageHeight == 2000
      measuresPerPage == 20
      pages == (measureCount + measuresPerPage - 1) \div measuresPerPage
  IN IF pages * basePageHeight > basePageHeight
       THEN pages * basePageHeight ELSE basePageHeight

\* doc.measures?.length || 1   (measures = -1 stands for a missing list)
MeasureCount(doc) == IF doc.measures <= 0 THEN 1 ELSE doc.measures


(***************************************************************************)
(* Outcomes of the collaborators during one render.                        *)
(***************************************************************************)
Toolkit == [present |-> TRUE, setOptions |-> TRUE]
ToolkitNoSetOptions == [present |-> TRUE, setOptions |-> FALSE]

EnvOk(n) ==
  [parseCode |-> [ok |-> TRUE, measures |-> n],
   encode |-> [ok |-> TRUE],
   setOptions |-> [ok |-> TRUE],
   loadData |-> [ok |-> TRUE, loaded |-> TRUE],
   getLog |-> [ok |-> TRUE, log |-> Str_log],
   renderToSVG |-> [ok |-> TRUE]]

EnvThrow(step, e) == [EnvOk(1) EXCEPT ![step] = [ok |-> FALSE, error |-> e]]
EnvLoadFalse == [EnvOk(1) EXCEPT !.loadData.loaded = FALSE]

(***************************************************************************)
(* renderLilylet.  env gives the outcome of each collaborator call of this *)
(* render:                                                                 *)
(*   env.parseCode   [ok |-> TRUE, measures |-> n] or [ok |-> FALSE, error]*)
(*   env.encode, env.setOptions, env.renderToSVG, env.getLog               *)
(*                   [ok |-> TRUE] or [ok |-> FALSE, error |-> thrown]     *)
(*   env.loadData    [ok |-> TRUE, loaded |-> BOOLEAN] or [ok |-> FALSE,..]*)
(* The result records how the call ends (return / throw), its value and    *)
(* the collaborator calls made, in order.                                  *)
(***************************************************************************)
SourceAttr(code, options) ==
  IF options.includeSource
    THEN <<" data-source=\"">> \o escapeHtml(code) \o <<"\"">>
    ELSE <<>>

MeiAttr(mei) == <<" data-mei=\"">> \o escapeHtml(mei) \o <<"\"">>

\* the fragment of line 141 (no toolkit) and of line 168 (svg embedded)
Container(code, options, mei, content) ==
  <<"<div class=\"">> \o options.containerClass \o <<"\" data-lilylet">>
    \o SourceAttr(code, options) \o MeiAttr(mei) \o <<">">> \o content \o <<"</div>">>

\* the fragment of line 172
ErrorFragment(code, options, error) ==
  <<"<div class=\"">> \o options.errorClass \o <<"\" data-lilylet-error><pre>">>
    \o escapeHtml(errorMessage(error)) \o <<"</pre><pre>">>
    \o escapeHtml(code) \o <<"</pre></div>">>

LoadErrorPrefix ==
  <<"V", "e", "r", "o", "v", "i", "o", " ", "f", "a", "i", "l", "e", "d", " ",
    "t", "o", " ", "l", "o", "a", "d", " ", "M", "E", "I", ":", " ">>

\* a rasterize step that ignores what loadData returns
RasterizeFromUnchecked(code, options, env, mei, calls) ==
  LET c1 == Append(calls, Call("loadData", mei))
      c3 == Append(c1, Call("renderToSVG", <<"1">>))
  IN IF ~env.loadData.ok THEN Throw(env.loadData.error, c1)
     ELSE IF ~env.renderToSVG.ok THEN Throw(env.renderToSVG.error, c3)
     ELSE Return(Container(code, options, mei, SvgOf(mei)), c3)

\* lines 158-168: loadData, getLog on failure, renderToSVG(1)
RasterizeFrom(code, options, env, mei, calls) ==
  LET c1 == Append(calls, Call("loadData", mei)) IN
  IF ~env.loadData.ok THEN Throw(env.loadData.error, c1)
  ELSE IF ~env.loadData.loaded
    THEN LET c2 == Append(c1, Call("getLog", <<>>)) IN
         IF ~env.getLog.ok THEN Throw(env.getLog.error, c2)
         ELSE Throw(ErrorOf(LoadErrorPrefix \o env.getLog.log), c2)
  ELSE LET c3 == Append(c1, Call("renderToSVG", <<"1">>)) IN
       IF ~env.renderToSVG.ok THEN Throw(env.renderToSVG.error, c3)
       ELSE Return(Container(code, options, mei, SvgOf(mei)), c3)

\* lines 144-156: the page height and setOptions, when the handle has it
ConfigureFrom(code, options, env, doc, mei, calls) ==
  LET pageHeight == PageHeight(MeasureCount(doc))
      given == Spread(options.verovioOptions,
                      [k \in {"pageHeight"} |-> pageHeight])
  IN IF options.verovioToolkit.setOptions
       THEN LET c1 == Append(calls, Call("setOptions", given)) IN
            IF ~env.setOptions.ok THEN Throw(env.setOptions.error, c1)
            ELSE RasterizeFrom(code, options, env, mei, c1)
       ELSE RasterizeFrom(code, options, env, mei, calls)

\* lines 129-168: the body of the try block
TryBody(code, options, env) ==
  LET c0 == <<Call("parseCode", code)>> IN
  IF ~env.parseCode.ok THEN Throw(env.parseCode.error, c0)
  ELSE
    LET doc == [text |-> code, measures |-> env.parseCode.measures]
        c1 == Append(c0, Call("encode", code))
    IN IF ~env.encode.ok THEN Throw(env.encode.error, c1)
       ELSE LET mei == MeiOf(doc) IN
            IF ~options.verovioToolkit.present
              THEN Return(Container(code, options, mei, <<>>), c1)
              ELSE ConfigureFrom(code, options, env, doc, mei, c1)

\* a render whose try block covers the parse only
renderLilyletCatchParseOnly(code, options, env) ==
  LET r == TryBody(code, options, env) IN
  IF r.kind = "throw" /\ ~env.parseCode.ok
    THEN Return(ErrorFragment(code, options, r.value), r.calls)
    ELSE r

\* a render without the catch
renderLilyletUncaught(code, options, env) == TryBody(code, options, env)

renderLilylet(code, options, env) ==
  LET r == TryBody(code, options, env) IN
  IF r.kind = "throw"
    THEN Return(ErrorFragment(code, options, r.value), r.calls)
    ELSE r

(***************************************************************************)
(* renderLilyletSync and its cache key.  A Map is a function whose domain  *)
(* is the set of its keys.                                                 *)
(***************************************************************************)
\* playable ? `play:${code}` : code
cacheKey(code, playable) == IF playable THEN PlayColon \o code ELSE code

\* a placeholder that forgets the playable marker
PendingFragmentUnmarked(code, options, playable) ==
  <<"<div class=\"">> \o options.containerClass \o <<"\" data-lilylet-pending">>
    \o SourceAttr(code, options) \o <<"><code>">> \o escapeHtml(code)
    \o <<"</code></div>">>

PendingFragment(code, options, playable) ==
  <<"<div class=\"">> \o options.containerClass \o <<"\" data-lilylet-pending">>
    \o (IF playable THEN <<" data-playable">> ELSE <<>>)
    \o SourceAttr(code, options) \o <<"><code>">> \o escapeHtml(code)
    \o <<"</code></div>">>

\* a sync render that renders on a miss instead of answering with the placeholder
renderLilyletSyncEager(code, options, cache, playable) ==
  LET key == cacheKey(code, playable)
      c0 == <<Call("cache.get", key)>>
  IN IF key \in DOMAIN cache
       THEN Return(cache[key], c0)
       ELSE LET r == TryBody(code, options, EnvOk(1))
            IN Return(r.value, c0 \o r.calls)

\* a sync render that stores the placeholder in the cache on a miss
renderLilyletSyncMemo(code, options, cache, playable) ==
  LET key == cacheKey(code, playable)
      c0 == <<Call("cache.get", key)>>
  IN IF key \in DOMAIN cache
       THEN Return(cache[key], c0)
       ELSE Return(PendingFragment(code, options, playable),
                   Append(c0, Call("cache.set", key)))

renderLilyletSync(code, options, cache, playable) ==
  LET key == cacheKey(code, playable)
      c0 == <<Call("cache.get", key)>>
  IN IF key \in DOMAIN cache
       THEN Return(cache[key], c0)
       ELSE Return(PendingFragment(code, options, playable), c0)


(***************************************************************************)
(* The host engine: tokens, the fence rule the engine has before the       *)
(* plugin is installed, and the hook lilyletPlugin installs.               *)
(***************************************************************************)
Fence(info, content) == [type |-> "fence", info |-> info, content |-> content]
Paragraph == [type |-> "paragraph", info |-> <<>>, content |-> <<"p">>]

\* md.renderer.rules.fence as captured at install time (originalFence)
originalFence(token) ==
  <<"<pre><code class=\"">> \o token.info \o <<"\">">> \o token.content
    \o <<"</code></pre>">>

\* a hook that hands the fallback the trimmed block
fenceHookTrimmed(token, options, cache) ==
  LET info == trim(token.info)
      code == trim(token.content)
      tag == parseLanguageTag(info, options.langAliases)
  IN IF tag.isLilylet
       THEN renderLilyletSync(code, options, cache, tag.isPlayable)
       ELSE Return(originalFence(Fence(info, code)), <<>>)

\* md.renderer.rules.fence as installed by lilyletPlugin (lines 219-232)
fenceHook(token, options, cache) ==
  LET info == trim(token.info)
      code == trim(token.content)
      tag == parseLanguageTag(info, options.langAliases)
  IN IF tag.isLilylet
       THEN renderLilyletSync(code, options, cache, tag.isPlayable)
       ELSE Return(originalFence(token), <<>>)


(***************************************************************************)
(* Inputs of the state machine.                                            *)
(***************************************************************************)
Text_c == <<"c">>
Text_play_c == PlayColon \o Text_c
Texts == {Text_c, Text_play_c}

\* the content of a fence token ends with the line break of its last line
Block(info, text) == Fence(info, text \o <<"\n">>)

Tokens ==
  {Block(Str_lyl, Text_c), Block(Str_lyl \o DotPlay, Text_c),
   Block(Str_lyl, Text_play_c), Block(Str_js, Text_c), Paragraph}
Docs == UNION {[1..n -> Tokens] : n \in 1..MaxBlocks}

NoOptions == [k \in {} |-> <<>>]
InstallOptions ==
  {NoOptions, [verovioToolkit |-> Toolkit], [includeSource |-> FALSE]}

Envs == {EnvOk(1), EnvThrow("parseCode", ErrorOf(Str_bad))}

(***************************************************************************)
(* State.                                                                  *)
(***************************************************************************)
VARIABLES
  installed,    \* lilyletPlugin has been applied to the engine (md.lilylet set)
  opts,         \* the options resolved by lilyletPlugin
  renderCache,  \* the installation's Map: key -> fragment
  tasks,        \* prerenderCode calls in flight
  sweep,        \* the prerender call in flight, if any; its field sole is
                \* history: the cache was empty when the call began and no
                \* other prerenderCode call has been in flight since
  last,         \* the operation that completed last: its arguments and result
  resolved,     \* history: what the last completed prerenderCode(T) resolved with
  handle,       \* the rasterizer handle's own state: the options set and the
                \* data loaded; followed in SpecConc only
  heap,         \* the Maps created by new Map(), in order of creation, and
  engines       \* the installation of each of two engines; SpecTwo only

vars ==
  <<installed, opts, renderCache, tasks, sweep, last, resolved,
    handle, heap, engines>>

\* the state that the machine of one engine does not follow
others == <<handle, heap, engines>>

EmptyMap == [k \in {} |-> <<>>]
\* Map.prototype.set
MapSet(m, key, value) ==
  [k \in DOMAIN m \cup {key} |-> IF k = key THEN value ELSE m[k]]

NoSweep == [active |-> FALSE]

\* a rasterizer handle on which nothing has been set or loaded
HandleIdle == [options |-> EmptyMap, data |-> <<>>]

\* an engine without the plugin
Engines == {1, 2}
NoInstallation == [installed |-> FALSE, opts |-> DEFAULT_OPTIONS, cache |-> 0, tasks |-> <<>>]

Init ==
  /\ installed = FALSE
  /\ opts = DEFAULT_OPTIONS
  /\ renderCache = EmptyMap
  /\ tasks = <<>>
  /\ sweep = NoSweep
  /\ last = [op |-> "new"]
  /\ resolved = EmptyMap
  /\ handle = HandleIdle
  /\ heap = <<>>
  /\ engines = [e \in Engines |-> NoInstallation]

(***************************************************************************)
(* md.use(lilyletPlugin, options): lines 203-242.                          *)
(***************************************************************************)
Install(options) ==
  /\ ~installed
  /\ installed' = TRUE
  /\ opts' = ResolveOptions(options)
  /\ renderCache' = EmptyMap
  /\ last' = [op |-> "install"]
  /\ UNCHANGED <<tasks, sweep, resolved>>
  /\ UNCHANGED others

(***************************************************************************)
(* The engine's render pass calls the fence rule for a fence token.        *)
(***************************************************************************)
IsFence(token) == token.type = "fence"

TagOf(token, aliases) == parseLanguageTag(trim(token.info), aliases)

\* md.renderer.rules.fence(tokens, idx, ...) of the engine in its current state
FenceRule(token) ==
  IF installed THEN fenceHook(token, opts, renderCache)
  ELSE Return(originalFence(token), <<>>)

RenderFence(token) ==
  /\ IsFence(token)
  /\ last' = [op |-> "fence", arg |-> token, out |-> FenceRule(token)]
  /\ UNCHANGED <<installed, opts, renderCache, tasks, sweep, resolved>>
  /\ UNCHANGED others

(***************************************************************************)
(* md.lilylet.prerenderCode(code): lines 236-240.  The call runs           *)
(* renderLilylet up to its await of parseCode and is then in flight        *)
(* (PrerenderCode).  When the parse settles, the rest of renderLilylet     *)
(* runs without suspension and the continuation of prerenderCode writes    *)
(* the cache (CompleteTask); env is what the collaborators do in it.       *)
(***************************************************************************)
NewTask(code, owner) == [code |-> code, owner |-> owner]

Remove(seq, i) == SubSeq(seq, 1, i - 1) \o SubSeq(seq, i + 1, Len(seq))

PrerenderCode(code) ==
  /\ installed
  /\ Len(tasks) < MaxInFlight
  /\ tasks' = Append(tasks, NewTask(code, "direct"))
  /\ sweep' = IF sweep.active THEN [sweep EXCEPT !.sole = FALSE] ELSE sweep
  /\ UNCHANGED <<installed, opts, renderCache, last, resolved>>
  /\ UNCHANGED others

(***************************************************************************)
(* prerender(md, content, options): lines 248-274.  The loop runs without  *)
(* suspension up to the prerenderCode call of the next notation block; it  *)
(* resumes when that call has completed.                                   *)
(***************************************************************************)
PrerenderOptions == {NoOptions, [verovioToolkit |-> Toolkit]}

\* the next fence token at or after from that the Tag Matcher accepts, or 0
NextBlock(tokens, from, aliases) ==
  LET found == {i \in from..Len(tokens) :
                  IsFence(tokens[i]) /\ TagOf(tokens[i], aliases).isLilylet}
  IN IF found = {} THEN 0
     ELSE CHOOSE i \in found : \A j \in found : i <= j

\* the loop from token index from on; without md.lilylet no block is awaited
SweepFrom(doc, from, aliases, sole, rest, lastElse) ==
  LET i == IF installed THEN NextBlock(doc, from, aliases) ELSE 0 IN
  IF i = 0
    THEN /\ sweep' = NoSweep
         /\ tasks' = rest
         /\ last' = [op |-> "prerender", kind |-> "return"]
    ELSE /\ sweep' = [active |-> TRUE, doc |-> doc, idx |-> i,
                       aliases |-> aliases, sole |-> sole]
         /\ tasks' = Append(rest, NewTask(trim(doc[i].content), "sweep"))
         /\ last' = lastElse

\* a prerender that makes its options the options of the installation
PrerenderConfiguring(doc, options) ==
  /\ ~sweep.active
  /\ Len(tasks) < MaxInFlight
  /\ SweepFrom(doc, 1, ResolveOptions(options).langAliases,
               DOMAIN renderCache = {} /\ tasks = <<>>, tasks, last)
  /\ opts' = IF installed THEN ResolveOptions(options) ELSE opts
  /\ UNCHANGED <<installed, renderCache, resolved>>
  /\ UNCHANGED others

Prerender(doc, options) ==
  /\ ~sweep.active
  /\ Len(tasks) < MaxInFlight
  /\ SweepFrom(doc, 1, ResolveOptions(options).langAliases,
               DOMAIN renderCache = {} /\ tasks = <<>>, tasks, last)
  /\ UNCHANGED <<installed, opts, renderCache, resolved>>
  /\ UNCHANGED others

\* a completion that stores the fragment under the playable key
CacheWriteKeyed(code, result) == MapSet(renderCache, cacheKey(code, TRUE), result)

\* a completion that starts the cache afresh
CacheWriteFresh(code, result) == MapSet(EmptyMap, code, result)

\* renderCache.set(code, result)
CacheWrite(code, result) == MapSet(renderCache, code, result)

CompleteTask(i, env) ==
  LET t == tasks[i]
      out == renderLilylet(t.code, opts, env)
      done == [op |-> "prerenderCode", kind |-> out.kind]
  IN
  /\ IF out.kind = "return"
       THEN /\ renderCache' = CacheWrite(t.code, out.value)
            /\ resolved' = MapSet(resolved, t.code, out.value)
       ELSE UNCHANGED <<renderCache, resolved>>
  /\ IF t.owner = "direct"
       THEN /\ tasks' = Remove(tasks, i)
            /\ last' = done
            /\ UNCHANGED sweep
     ELSE IF out.kind = "throw"
       THEN /\ tasks' = Remove(tasks, i)
            /\ sweep' = NoSweep
            /\ last' = [op |-> "prerender", kind |-> "throw"]
     ELSE SweepFrom(sweep.doc, sweep.idx + 1, sweep.aliases, sweep.sole,
                    Remove(tasks, i), done)
  /\ UNCHANGED <<installed, opts>>
  /\ UNCHANGED others

Next ==
  \/ \E o \in InstallOptions : Install(o)
  \/ \E t \in Tokens : RenderFence(t)
  \/ \E c \in Texts : PrerenderCode(c)
  \/ \E d \in Docs, o \in PrerenderOptions : Prerender(d, o)
  \/ \E i \in 1..Len(tasks), e \in Envs : CompleteTask(i, e)

Spec == Init /\ [][Next]_vars


(***************************************************************************)
(* Properties of the installed pipeline, checked under Spec.               *)
(***************************************************************************)
CollaboratorOps ==
  {"parseCode", "encode", "setOptions", "loadData", "renderToSVG", "getLog"}

\* the block is a notation block of the default aliases without / with .play
PlainNotation(token) ==
  IsFence(token) /\ toLowerCase(trim(token.info)) \in {Str_lilylet, Str_lyl}
PlayNotation(token) ==
  IsFence(token)
    /\ toLowerCase(trim(token.info)) \in {Str_lilylet \o DotPlay, Str_lyl \o DotPlay}
Notation(token) == PlainNotation(token) \/ PlayNotation(token)

\* the pending placeholder of a block, spelled out
Placeholder(token) ==
  <<"<div class=\"">> \o opts.containerClass \o <<"\" data-lilylet-pending">>
    \o (IF PlayNotation(token) THEN <<" data-playable">> ELSE <<>>)
    \o (IF opts.includeSource
          THEN <<" data-source=\"">> \o escapeHtml(trim(token.content)) \o <<"\"">>
          ELSE <<>>)
    \o <<"><code>">> \o escapeHtml(trim(token.content)) \o <<"</code></div>">>

\* C1: whatever block the installed fence hook (and renderLilyletSync under
\* it) is called with - notation or not, plain or .play, cache hit or miss -
\* it returns without a call of parseCode, meiEncoder.encode, setOptions,
\* loadData, renderToSVG or getLog.
C1_SyncNeverRenders ==
  (last.op = "fence" /\ installed) =>
    \A i \in 1..Len(last.out.calls) : last.out.calls[i].fn \notin CollaboratorOps

\* a notation block rendered by the hook on a cache miss
C1_Witness ==
  /\ last.op = "fence"
  /\ installed
  /\ Notation(last.arg)
  /\ Len(last.out.calls) = 1
  /\ last.out.calls[1].arg \notin DOMAIN renderCache

\* C2: once prerenderCode(T) has completed, the hook rendering a plain
\* notation block whose trimmed content is T returns exactly the fragment
\* that the last completed prerenderCode(T) resolved with, not the placeholder.
C2_PlainServesResolved ==
  (/\ last.op = "fence"
   /\ installed
   /\ PlainNotation(last.arg)
   /\ trim(last.arg.content) \in DOMAIN resolved)
  => /\ last.out.value = resolved[trim(last.arg.content)]
     /\ last.out.value # Placeholder(last.arg)

\* a plain block whose text begins with "play:" served after its prerenderCode
C2_Witness ==
  /\ last.op = "fence"
  /\ installed
  /\ PlainNotation(last.arg)
  /\ trim(last.arg.content) = Text_play_c
  /\ Text_play_c \in DOMAIN resolved
  /\ last.out.value = resolved[Text_play_c]

\* the step in which a prerender call that awaited a block resolves
SweepResolves ==
  /\ sweep.active
  /\ ~sweep'.active
  /\ last'.op = "prerender"
  /\ last'.kind = "return"

\* C3: after prerender(md, D) has completed (same alias set), md.render(D)
\* emits no pending placeholder for any notation block of D, plain or .play.
C3_NoPendingAfterPrerender ==
  [][(SweepResolves /\ sweep.aliases = opts.langAliases) =>
       \A i \in 1..Len(sweep.doc) :
         Notation(sweep.doc[i]) =>
           fenceHook(sweep.doc[i], opts', renderCache').value
             # Placeholder(sweep.doc[i])]_vars

\* C5: starting from an empty cache, after prerender of a document whose only
\* notation block with text T is tagged .play, the sync render of a plain
\* block with text T is still the placeholder; and after prerender of a
\* document whose only notation block with text T is plain, the sync render
\* of a .play block with text T is still the placeholder.
OnlyAs(doc, T, Variant(_)) ==
  /\ \E i \in 1..Len(doc) : Notation(doc[i]) /\ trim(doc[i].content) = T
  /\ \A i \in 1..Len(doc) :
       (Notation(doc[i]) /\ trim(doc[i].content) = T) => Variant(doc[i])

C5_VariantsDoNotMix ==
  [][(SweepResolves /\ sweep.sole) =>
       \A T \in Texts :
         /\ OnlyAs(sweep.doc, T, PlayNotation) =>
              fenceHook(Block(Str_lyl, T), opts', renderCache').value
                = Placeholder(Block(Str_lyl, T))
         /\ OnlyAs(sweep.doc, T, PlainNotation) =>
              fenceHook(Block(Str_lyl \o DotPlay, T), opts', renderCache').value
                = Placeholder(Block(Str_lyl \o DotPlay, T))]_vars

\* C7: for a fenced block that the Tag Matcher does not classify as notation
\* the installed hook returns exactly what the fallback captured at install
\* time returns for the same token (the output of the engine without the
\* plugin), and it makes no cache access.
C7_FallbackUntouched ==
  (/\ last.op = "fence"
   /\ installed
   /\ ~TagOf(last.arg, opts.langAliases).isLilylet)
  => /\ last.out.value = originalFence(last.arg)
     /\ last.out.calls = <<>>

\* a block tagged js rendered through the installed hook while the cache is filled
C7_Witness ==
  /\ last.op = "fence"
  /\ installed
  /\ last.arg.info = Str_js
  /\ DOMAIN renderCache # {}

NoPrerenderYet == DOMAIN resolved = {}

Served(code, playable) ==
  /\ installed
  /\ renderLilyletSync(code, opts, renderCache, playable).value
       # PendingFragment(code, opts, playable)

\* C10: no operation removes a cache key, and once the sync render of a block
\* (T, modifier) is answered from the cache it is never again answered with
\* the pending placeholder.
C10_CacheOnlyGrows ==
  [][/\ DOMAIN renderCache \subseteq DOMAIN renderCache'
     /\ \A c \in Texts, p \in BOOLEAN : Served(c, p) => Served(c, p)']_vars

\* two keys are cached and the hook has just served one of them
C10_Witness ==
  /\ last.op = "fence"
  /\ installed
  /\ Notation(last.arg)
  /\ last.out.value # Placeholder(last.arg)
  /\ Cardinality(DOMAIN renderCache) = 2

\* a step in which an in-flight prerenderCode call for text T completes, that
\* is, one whole parse/encode/rasterize sequence of renderLilylet(T) has run
Converts(T) ==
  \E i \in 1..Len(tasks), e \in Envs : tasks[i].code = T /\ CompleteTask(i, e)

\* C11: per installation the parse/encode/rasterize sequence of renderLilylet
\* is executed at most once for a source text: no prerenderCode call for T -
\* made directly or by prerender, for a repeated block or a repeated run -
\* completes a render of T after an earlier one has completed.
C11_ConvertedAtMostOnce ==
  [][\A T \in Texts : Converts(T) => T \notin DOMAIN resolved]_vars

\* the fragment is an error container
IsErrorFragment(frag) ==
  /\ Len(frag) >= 3
  /\ frag[1] = "<div class=\""
  /\ frag[3] = "\" data-lilylet-error><pre>"

\* C12: a failed render is sticky: once the cache holds an error fragment
\* for T, stored by prerenderCode(T), the hook returns that same fragment for
\* the plain block T after every later operation on the installation, a
\* later prerender or prerenderCode of T whose collaborators succeed included.
C12_FailureIsSticky ==
  [][\A T \in Texts :
       (installed /\ T \in DOMAIN renderCache /\ IsErrorFragment(renderCache[T]))
         => fenceHook(Block(Str_lyl, T), opts', renderCache').value
              = renderCache[T]]_vars

\* a step in which an in-flight prerenderCode call completes
Completes == \E i \in 1..Len(tasks), e \in Envs : CompleteTask(i, e)

\* what the engine's fence rule returns for the token after the step
FenceRuleNext(token) ==
  IF installed' THEN fenceHook(token, opts', renderCache')
  ELSE Return(originalFence(token), <<>>)

Idle ==
  /\ installed = FALSE
  /\ opts = DEFAULT_OPTIONS
  /\ renderCache = EmptyMap
  /\ tasks = <<>>
  /\ sweep = NoSweep
  /\ resolved = EmptyMap
  /\ handle = HandleIdle
  /\ heap = <<>>
  /\ engines = [e \in Engines |-> NoInstallation]

Rest == <<installed, opts, renderCache, tasks, sweep, resolved, others>>

\* parseLanguageTag(info, DEFAULT_OPTIONS.langAliases)
TagAlphabet == {"l", "y", "L"}
TagPrefixes ==
  UNION {[1..n -> TagAlphabet] : n \in 0..MaxInfoLen}
    \cup {Str_lilylet, <<"L", "i", "l", "y", "L", "E", "T">>, <<"L", "Y", "L">>,
          <<"l", "y", "l", "a">>, Str_js}
TagSuffixes ==
  {<<>>, DotPlay, <<".", "P", "L", "A", "Y">>, <<".", "p", "l", "a">>,
   <<"p", "l", "a", "y">>, DotPlay \o DotPlay, DotPlay \o <<" ">>}
TagInputs == {p \o x : p \in TagPrefixes, x \in TagSuffixes}

InitTag == Idle /\ last \in {[op |-> "input", arg |-> s] : s \in TagInputs}

ApplyTag ==
  /\ last.op = "input"
  /\ last' = [op |-> "parseLanguageTag", arg |-> last.arg,
              out |-> parseLanguageTag(last.arg, DefaultAliases)]
  /\ UNCHANGED Rest

SpecTag == InitTag /\ [][ApplyTag]_vars

\* the cache key of two source blocks
KeyTexts ==
  {<<>>, Text_c, Text_play_c, PlayColon, PlayColon \o Text_play_c, <<"p">>}
KeyArgs == [code : KeyTexts, playable : BOOLEAN]

InitKey == Idle /\ last \in {[op |-> "input", arg |-> <<a, b>>] : a, b \in KeyArgs}

ApplyKey ==
  /\ last.op = "input"
  /\ last' = [op |-> "cacheKey", arg |-> last.arg,
              out |-> <<cacheKey(last.arg[1].code, last.arg[1].playable),
                        cacheKey(last.arg[2].code, last.arg[2].playable)>>]
  /\ UNCHANGED Rest

SpecKey == InitKey /\ [][ApplyKey]_vars

\* renderLilylet(code, options) under every outcome of the collaborators
RenderCodes == {Text_c, <<"a", "<", "'">>}
\* plugin options that configure the rasterizer, a page height included
UserRasterOptions ==
  [verovioToolkit |-> Toolkit,
   verovioOptions |-> [pageHeight |-> 100, scale |-> 50]]
RenderOptionsGiven ==
  {NoOptions, [verovioToolkit |-> Toolkit],
   [verovioToolkit |-> ToolkitNoSetOptions],
   [verovioToolkit |-> Toolkit, includeSource |-> FALSE],
   UserRasterOptions}
RenderOptions == {ResolveOptions(o) : o \in RenderOptionsGiven}
Steps == {"parseCode", "encode", "setOptions", "loadData", "getLog", "renderToSVG"}
RenderEnvs ==
  {EnvOk(n) : n \in (-1)..MaxMeasures}
    \cup {EnvThrow(step, e) : step \in Steps, e \in Thrown}
    \cup {EnvLoadFalse}
    \cup {[EnvLoadFalse EXCEPT !.getLog = [ok |-> FALSE, error |-> e]] : e \in Thrown}

InitRender ==
  /\ Idle
  /\ last \in {[op |-> "input", arg |-> [code |-> c, options |-> o, env |-> e]] :
                 c \in RenderCodes, o \in RenderOptions, e \in RenderEnvs}

ApplyRender ==
  /\ last.op = "input"
  /\ last' = [op |-> "renderLilylet", arg |-> last.arg,
              out |-> renderLilylet(last.arg.code, last.arg.options, last.arg.env)]
  /\ UNCHANGED Rest

SpecRender == InitRender /\ [][ApplyRender]_vars

(***************************************************************************)
(* Properties of the pure functions.                                       *)
(***************************************************************************)
\* C4: the cache key is injective on (text, modifier): two different source
\* blocks never get the same key, texts that begin with "play:" included.
C4_KeysInjective ==
  (last.op = "cacheKey" /\ last.arg[1] # last.arg[2]) => last.out[1] # last.out[2]

\* sub occurs in frag as a contiguous run
Contains(frag, sub) ==
  \E i \in 0..(Len(frag) - Len(sub)) : SubSeq(frag, i + 1, i + Len(sub)) = sub

\* the step of the render is reached, given the configuration and the outcomes
Reached(a, step) ==
  LET e == a.env
      tk == a.options.verovioToolkit
      coded == e.parseCode.ok /\ e.encode.ok
      loading == coded /\ tk.present /\ (tk.setOptions => e.setOptions.ok)
  IN CASE step = "parseCode" -> TRUE
       [] step = "encode" -> e.parseCode.ok
       [] step = "setOptions" -> coded /\ tk.present /\ tk.setOptions
       [] step = "loadData" -> loading
       [] step = "getLog" -> loading /\ e.loadData.ok /\ ~e.loadData.loaded
       [] step = "renderToSVG" -> loading /\ e.loadData.ok /\ e.loadData.loaded

\* the text of a thrown value
ThrownText(v) ==
  CASE v.kind = "Error" -> v.message
    [] v.kind = "string" -> v.value
    [] v.kind = "null" -> <<"n", "u", "l", "l">>

\* C6: renderLilylet always resolves to a fragment and never rejects; when a
\* step that was reached fails (throws an Error or another value, or loadData
\* returns false) the fragment is the error container: it carries the error
\* marker, the escaped failure message and the escaped source text.
C6_RenderIsTotal ==
  last.op = "renderLilylet" =>
    LET a == last.arg
        frag == last.out.value
        IsError == /\ Len(frag) >= 3
                   /\ frag[1] = "<div class=\""
                   /\ <<frag[2]>> = a.options.errorClass
                   /\ frag[3] = "\" data-lilylet-error><pre>"
                   /\ Contains(frag, <<"</pre><pre>">> \o escapeHtml(a.code)
                                       \o <<"</pre></div>">>)
    IN /\ last.out.kind = "return"
       /\ \A step \in Steps :
            (Reached(a, step) /\ ~a.env[step].ok) =>
              /\ IsError
              /\ Contains(frag, escapeHtml(ThrownText(a.env[step].error))
                                  \o <<"</pre><pre>">>)
       /\ (Reached(a, "getLog") /\ a.env.getLog.ok) =>
            /\ IsError
            /\ Contains(frag, escapeHtml(a.env.getLog.log) \o <<"</pre><pre>">>)

\* the encoder throws null while a rasterizer is configured
C6_Witness ==
  /\ last.op = "renderLilylet"
  /\ last.arg.options.verovioToolkit.present
  /\ last.arg.env.parseCode.ok
  /\ ~last.arg.env.encode.ok
  /\ last.arg.env.encode.error = NullValue
  /\ last.out.kind = "return"
  /\ Contains(last.out.value, <<"n", "u", "l", "l", "</pre><pre>">>)

\* C9: with the aliases {lilylet, lyl} the Tag Matcher answers every info
\* string with two fields: modifier is true exactly when the case-folded
\* string ends with ".play", and notation is true exactly when the case-folded
\* string, without one trailing ".play", is one of the aliases.
C9_TagMatcher ==
  last.op = "parseLanguageTag" =>
    LET s == toLowerCase(last.arg)
        n == Len(s)
        mod == n >= 5 /\ \A i \in 1..5 : s[n - 5 + i] = DotPlay[i]
        base == IF mod THEN [i \in 1..(n - 5) |-> s[i]] ELSE s
    IN /\ DOMAIN last.out = {"isLilylet", "isPlayable"}
       /\ last.out.isPlayable = mod
       /\ last.out.isLilylet = (base \in {Str_lilylet, Str_lyl})
       /\ (last.arg = Str_lyl \o DotPlay) =>
            (last.out.isLilylet /\ last.out.isPlayable)
       /\ (last.arg = <<"L", "Y", "L">>) =>
            (last.out.isLilylet /\ ~last.out.isPlayable)
       /\ (last.arg = <<"l", "y", "l", "a">>) => ~last.out.isLilylet

\* an upper-case alias with a mixed-case .play suffix is matched
C9_Witness ==
  /\ last.op = "parseLanguageTag"
  /\ last.arg = <<"L", "Y", "L", ".", "P", "L", "A", "Y">>
  /\ last.out.isLilylet
  /\ last.out.isPlayable

(***************************************************************************)
(* The prerender driver under every kind of failed render: the installed   *)
(* machine, driven by md.use and prerender only.                           *)
(***************************************************************************)
SweepEnvs ==
  {EnvOk(1), EnvThrow("parseCode", ErrorOf(Str_bad)),
   EnvThrow("encode", NullValue), EnvLoadFalse,
   EnvThrow("renderToSVG", StringOf(Str_bad))}

\* options given to prerender: with the default aliases or with the alias
\* js, each with and without other options
SweepOptions ==
  {NoOptions, [verovioToolkit |-> Toolkit], [langAliases |-> <<Str_js>>],
   [langAliases |-> <<Str_js>>, verovioToolkit |-> Toolkit,
    includeSource |-> FALSE, containerClass |-> <<"x">>]}

NextSweep ==
  \/ \E o \in InstallOptions : Install(o)
  \/ \E d \in Docs, o \in SweepOptions : Prerender(d, o)
  \/ \E i \in 1..Len(tasks), e \in SweepEnvs : CompleteTask(i, e)

SpecSweep == Init /\ [][NextSweep]_vars

\* the render fails under the configuration and the outcomes
Fails(options, e) ==
  LET a == [options |-> options, env |-> e] IN
  \/ \E step \in Steps : Reached(a, step) /\ ~e[step].ok
  \/ Reached(a, "getLog")

\* C13: a failed render of one block does not abort the sweep.  When the
\* render of the block the sweep awaits completes - with a parse, encode or
\* rasterizer failure or without - prerender does not reject; the block's
\* fragment is written under its text, an error fragment if the render
\* failed; and the sweep goes on to the next notation block in document
\* order, or resolves when there is none.
C13_FailureDoesNotAbortSweep ==
  [][\A e \in SweepEnvs :
       (sweep.active /\ tasks # <<>> /\ CompleteTask(1, e)) =>
         LET T == trim(sweep.doc[sweep.idx].content)
             nxt == NextBlock(sweep.doc, sweep.idx + 1, sweep.aliases)
         IN /\ last'.kind = "return"
            /\ T \in DOMAIN renderCache'
            /\ Fails(opts, e) <=> IsErrorFragment(renderCache'[T])
            /\ IF nxt = 0
                 THEN ~sweep'.active /\ last'.op = "prerender" /\ tasks' = <<>>
                 ELSE /\ sweep'.active
                      /\ sweep'.idx = nxt
                      /\ tasks' = <<NewTask(trim(sweep.doc[nxt].content), "sweep")>>]_vars

\* the first block of a sweep failed in the rasterizer, its error fragment is
\* cached, and the sweep has gone on to a second block with another text
C13_Witness ==
  /\ sweep.active
  /\ sweep.idx = 2
  /\ tasks = <<NewTask(trim(sweep.doc[2].content), "sweep")>>
  /\ trim(sweep.doc[1].content) # trim(sweep.doc[2].content)
  /\ trim(sweep.doc[1].content) \in DOMAIN renderCache
  /\ IsErrorFragment(renderCache[trim(sweep.doc[1].content)])
  /\ Contains(renderCache[trim(sweep.doc[1].content)], escapeHtml(Str_log))

(***************************************************************************)
(* Properties of the rasterizer steps of renderLilylet, checked under      *)
(* SpecRender.                                                             *)
(***************************************************************************)
\* how often the render called the collaborator operation fn
CallCount(calls, fn) == Cardinality({i \in 1..Len(calls) : calls[i].fn = fn})

\* C14: with a rasterizer configured, when loadData returns false the render
\* does not call renderToSVG, reads getLog exactly once and results in an
\* error fragment that contains the escaped source and, in its escaped
\* message, the log text that getLog returned; when loadData succeeds the
\* render calls renderToSVG once, for page 1, and embeds what it returns,
\* unescaped, as the content of the notation container.
C14_LoadFailureAndSuccess ==
  last.op = "renderLilylet" =>
    LET a == last.arg
        calls == last.out.calls
        frag == last.out.value
        mei == MeiOf([text |-> a.code, measures |-> a.env.parseCode.measures])
    IN /\ Reached(a, "getLog") =>
            /\ CallCount(calls, "renderToSVG") = 0
            /\ CallCount(calls, "getLog") = 1
            /\ IsErrorFragment(frag)
            /\ Contains(frag, <<"</pre><pre>">> \o escapeHtml(a.code)
                                \o <<"</pre></div>">>)
            /\ a.env.getLog.ok =>
                 Contains(frag, escapeHtml(a.env.getLog.log) \o <<"</pre><pre>">>)
       /\ Reached(a, "renderToSVG") =>
            /\ CallCount(calls, "renderToSVG") = 1
            /\ CallCount(calls, "getLog") = 0
            /\ calls[Len(calls)] = Call("renderToSVG", <<"1">>)
            /\ a.env.renderToSVG.ok =>
                 /\ frag[1] = "<div class=\""
                 /\ <<frag[2]>> = a.options.containerClass
                 /\ frag[3] = "\" data-lilylet"
                 /\ Contains(frag, MeiAttr(mei) \o <<">">> \o SvgOf(mei)
                                     \o <<"</div>">>)

\* loadData returned false for a source with characters to escape, and the
\* log that getLog returned is in the error fragment
C14_Witness ==
  /\ last.op = "renderLilylet"
  /\ last.arg.code = <<"a", "<", "'">>
  /\ Reached(last.arg, "getLog")
  /\ last.arg.env.getLog.ok
  /\ CallCount(last.out.calls, "getLog") = 1
  /\ Contains(last.out.value, LoadErrorPrefix \o escapeHtml(Str_log))

\* ceil(n / d) for n >= 0 and d > 0
CeilDiv(n, d) == CHOOSE k \in 0..n : k * d >= n /\ (k - 1) * d < n

\* C15: with a rasterizer that has setOptions, for a document of n measures
\* (a missing or empty list counting as 1) the render calls setOptions once,
\* before loadData, with pageHeight = max(2000, ceil(n / 20) * 2000) - 2000
\* for n = 20, 4000 for n = 21 - whatever pageHeight the plugin options
\* configured; every other rasterizer option is passed as configured, or as
\* the default when it is not configured.
C15_PageHeight ==
  (last.op = "renderLilylet" /\ Reached(last.arg, "setOptions")) =>
    LET a == last.arg
        calls == last.out.calls
        measures == a.env.parseCode.measures
        n == IF measures <= 0 THEN 1 ELSE measures
        pages == CeilDiv(n, 20)
        expected == IF pages * 2000 > 2000 THEN pages * 2000 ELSE 2000
        at(fn) == {i \in 1..Len(calls) : calls[i].fn = fn}
    IN /\ CallCount(calls, "setOptions") = 1
       /\ \A i \in at("setOptions") :
            /\ calls[i].arg["pageHeight"] = expected
            /\ measures = 20 => calls[i].arg["pageHeight"] = 2000
            /\ measures = 21 => calls[i].arg["pageHeight"] = 4000
            /\ DOMAIN calls[i].arg
                 = DOMAIN DEFAULT_OPTIONS.verovioOptions \cup {"pageHeight"}
            /\ \A o \in RenderOptionsGiven, k \in DOMAIN DEFAULT_OPTIONS.verovioOptions :
                 a.options = ResolveOptions(o) =>
                   calls[i].arg[k]
                     = IF "verovioOptions" \in DOMAIN o /\ k \in DOMAIN o.verovioOptions
                         THEN o.verovioOptions[k]
                         ELSE DEFAULT_OPTIONS.verovioOptions[k]
            /\ \A j \in at("loadData") : i < j

\* 21 measures under options that configure pageHeight 100 and scale 50
C15_Witness ==
  /\ last.op = "renderLilylet"
  /\ last.arg.options = ResolveOptions(UserRasterOptions)
  /\ last.arg.env.parseCode.ok
  /\ last.arg.env.parseCode.measures = 21
  /\ \E i \in 1..Len(last.out.calls) :
       /\ last.out.calls[i].fn = "setOptions"
       /\ last.out.calls[i].arg["pageHeight"] = 4000
       /\ last.out.calls[i].arg["scale"] = 50
       /\ i < Len(last.out.calls)
       /\ last.out.calls[i + 1].fn = "loadData"

(***************************************************************************)
(* Several prerenderCode calls in flight on one installation whose         *)
(* rasterizer handle is stateful: setOptions and loadData change the       *)
(* handle and renderToSVG draws the data the handle holds at that moment.  *)
(* A call suspends at an await and nowhere else: renderLilylet at line 130 *)
(* (the parse), prerenderCode at line 237 (the render).                    *)
(***************************************************************************)
MaxConcurrent == 2

ConcTexts == Texts \cup {<<"d">>}
ConcEnvs == {EnvOk(1), EnvLoadFalse}

\* a call suspended at the await of line 130
ParseTask(code) == [code |-> code, pc |-> "parse", env |-> <<>>, result |-> <<>>]

\* the handle after the setOptions and loadData calls of a render
HandleAfter(h, calls, env) ==
  LET at(fn) == {i \in 1..Len(calls) : calls[i].fn = fn}
      arg(fn) == calls[CHOOSE i \in at(fn) : TRUE].arg
  IN [options |-> IF at("setOptions") # {} /\ env.setOptions.ok
                    THEN arg("setOptions") ELSE h.options,
      data |-> IF at("loadData") = {} THEN h.data
               ELSE IF env.loadData.ok /\ env.loadData.loaded
                 THEN arg("loadData") ELSE <<>>]

\* the render reaches renderToSVG and the call returns
Draws(out, env) ==
  /\ out.calls # <<>>
  /\ out.calls[Len(out.calls)].fn = "renderToSVG"
  /\ env.renderToSVG.ok

\* a render that yields to other calls between loadData and renderToSVG
ContinuationYielding(task, h, options, env) ==
  LET mei == MeiOf([text |-> task.code])
      out == renderLilylet(task.code, options, env)
      h1 == HandleAfter(h, out.calls, env)
  IN IF task.pc = "loaded"
       THEN [handle |-> h,
             task |-> [task EXCEPT !.pc = "rendered",
                         !.result = Container(task.code, options, mei, SvgOf(h.data))]]
     ELSE IF Draws(out, env)
       THEN [handle |-> h1, task |-> [task EXCEPT !.pc = "loaded", !.env = env]]
     ELSE [handle |-> h1,
           task |-> [task EXCEPT !.pc = "rendered", !.env = env,
                       !.result = out.value]]

\* lines 133-173, run without suspension once the parse has settled: the
\* handle is set up and loaded, and the graphics are what the handle draws
Continuation(task, h, options, env) ==
  LET mei == MeiOf([text |-> task.code])
      out == renderLilylet(task.code, options, env)
      h1 == HandleAfter(h, out.calls, env)
  IN [handle |-> h1,
      task |-> [task EXCEPT !.pc = "rendered", !.env = env,
                  !.result = IF Draws(out, env)
                               THEN Container(task.code, options, mei, SvgOf(h1.data))
                               ELSE out.value]]

\* md.lilylet.prerenderCode(code) up to the await of the parse
CallPrerenderCode(code) ==
  /\ installed
  /\ Len(tasks) < MaxConcurrent
  /\ \A i \in 1..Len(tasks) : tasks[i].code # code
  /\ tasks' = Append(tasks, ParseTask(code))
  /\ UNCHANGED <<installed, opts, renderCache, sweep, last, resolved, handle,
                 heap, engines>>

\* the call resumes in renderLilylet and runs to its next suspension
ResumeRender(i, env) ==
  /\ tasks[i].pc # "rendered"
  /\ LET r == Continuation(tasks[i], handle, opts, env)
     IN /\ handle' = r.handle
        /\ tasks' = [tasks EXCEPT ![i] = r.task]
  /\ UNCHANGED <<installed, opts, renderCache, sweep, last, resolved, heap, engines>>

\* the call resumes in prerenderCode: renderCache.set(code, result), line 238
StoreResult(i) ==
  /\ tasks[i].pc = "rendered"
  /\ renderCache' = CacheWrite(tasks[i].code, tasks[i].result)
  /\ tasks' = Remove(tasks, i)
  /\ last' = [op |-> "prerenderCode", kind |-> "return"]
  /\ UNCHANGED <<installed, opts, sweep, resolved, handle, heap, engines>>

NextConc ==
  \/ Install([verovioToolkit |-> Toolkit])
  \/ \E c \in ConcTexts : CallPrerenderCode(c)
  \/ \E i \in 1..Len(tasks), e \in ConcEnvs : ResumeRender(i, e)
  \/ \E i \in 1..Len(tasks) : StoreResult(i)

SpecConc == Init /\ [][NextConc]_vars

\* what a render of T on its own results in, under the outcomes e
Alone(T, e) == renderLilylet(T, opts, e).value

\* C17: prerenderCode calls for distinct texts that are in flight together on
\* one installation with a stateful rasterizer handle give what they give
\* one after the other.  A call is suspended only before its parse settles
\* or before its cache write, never between setOptions, loadData and
\* renderToSVG; its result is the result of a render on its own, so the
\* graphics in a cached notation container are those of the block's own
\* encoded document, in whatever order the calls complete.
C17_ConcurrentAsSequential ==
  /\ \A i \in 1..Len(tasks) :
       /\ tasks[i].pc \in {"parse", "rendered"}
       /\ tasks[i].pc = "rendered" =>
            tasks[i].result = Alone(tasks[i].code, tasks[i].env)
  /\ \A T \in DOMAIN renderCache :
       /\ renderCache[T] \in {Alone(T, e) : e \in ConcEnvs}
       /\ ~IsErrorFragment(renderCache[T]) =>
            Contains(renderCache[T],
                     <<">">> \o SvgOf(MeiOf([text |-> T])) \o <<"</div>">>)

\* two calls in flight: the one made second has rendered, leaving its data
\* in the handle, while the one made first still awaits its parse, and a
\* third text is already cached with its own graphics
C17_Witness ==
  /\ Len(tasks) = 2
  /\ tasks[1].pc = "parse"
  /\ tasks[2].pc = "rendered"
  /\ handle.data = MeiOf([text |-> tasks[2].code])
  /\ \E T \in DOMAIN renderCache :
       /\ T # tasks[2].code
       /\ Contains(renderCache[T], SvgOf(MeiOf([text |-> T])))

(***************************************************************************)
(* Two engines, each with its own md.use(lilyletPlugin, options).  Every   *)
(* installation creates its Map with new Map() (line 211); the closures of *)
(* that installation - the hook and prerenderCode - hold a reference to    *)
(* it.  The heap lists the Maps created; an installation's cache field is  *)
(* the index of its Map.                                                   *)
(***************************************************************************)
TwoOptions == {NoOptions, [verovioToolkit |-> Toolkit]}
TwoTokens == {Block(Str_lyl, Text_c), Block(Str_lyl \o DotPlay, Text_c)}
TwoEnvs == {EnvOk(1)}

\* one Map shared by every installation
SharedMap(h) == 1

\* new Map(): the reference to a Map that did not exist before
NewMap(h) == Len(h) + 1

CacheOf(e) == heap[engines[e].cache]

InstallOn(e, options) ==
  /\ ~engines[e].installed
  /\ heap' = Append(heap, EmptyMap)
  /\ engines' = [engines EXCEPT ![e] =
                   [installed |-> TRUE, opts |-> ResolveOptions(options),
                    cache |-> NewMap(heap), tasks |-> <<>>]]
  /\ last' = [op |-> "install", engine |-> e]
  /\ UNCHANGED <<installed, opts, renderCache, tasks, sweep, resolved, handle>>

\* the fence rule of engine e in its current state
HookOn(e, token) ==
  IF engines[e].installed
    THEN fenceHook(token, engines[e].opts, CacheOf(e))
    ELSE Return(originalFence(token), <<>>)

RenderFenceOn(e, token) ==
  /\ IsFence(token)
  /\ last' = [op |-> "fence", engine |-> e, arg |-> token, out |-> HookOn(e, token)]
  /\ UNCHANGED <<installed, opts, renderCache, tasks, sweep, resolved, handle,
                 heap, engines>>

\* md.lilylet.prerenderCode(code) of engine e, up to the await
PrerenderCodeOn(e, code) ==
  /\ engines[e].installed
  /\ Len(engines[e].tasks) < MaxInFlight
  /\ engines' = [engines EXCEPT ![e].tasks = Append(@, code)]
  /\ UNCHANGED <<installed, opts, renderCache, tasks, sweep, last, resolved,
                 handle, heap>>

\* the call completes: the render with the installation's options, and
\* renderCache.set on the installation's Map
CompleteOn(e, i, env) ==
  LET code == engines[e].tasks[i]
      out == renderLilylet(code, engines[e].opts, env)
  IN /\ heap' = [heap EXCEPT ![engines[e].cache] = MapSet(@, code, out.value)]
     /\ engines' = [engines EXCEPT ![e].tasks = Remove(@, i)]
     /\ last' = [op |-> "prerenderCode", engine |-> e, kind |-> out.kind]
     /\ UNCHANGED <<installed, opts, renderCache, tasks, sweep, resolved, handle>>

NextTwo ==
  \/ \E e \in Engines, o \in TwoOptions : InstallOn(e, o)
  \/ \E e \in Engines, t \in TwoTokens : RenderFenceOn(e, t)
  \/ \E e \in Engines, c \in Texts : PrerenderCodeOn(e, c)
  \/ \E e \in Engines :
       \E i \in 1..Len(engines[e].tasks), env \in TwoEnvs : CompleteOn(e, i, env)

SpecTwo == Init /\ [][NextTwo]_vars

\* the step is an installation on engine e
InstallsOn(e) == \E o \in TwoOptions : InstallOn(e, o)

\* the step is an installation or a prerenderCode call or completion on engine e
ActsOn(e) ==
  \/ InstallsOn(e)
  \/ \E c \in Texts : PrerenderCodeOn(e, c)
  \/ \E i \in 1..Len(engines[e].tasks), env \in TwoEnvs : CompleteOn(e, i, env)

\* what the fence rule of engine e returns for the token after the step
HookOnNext(e, token) ==
  IF engines'[e].installed
    THEN fenceHook(token, engines'[e].opts, heap'[engines'[e].cache])
    ELSE Return(originalFence(token), <<>>)

\* C18: the caches of two installations are isolated.  No installation,
\* prerenderCode call or completion on one engine changes what the fence
\* hook of the other engine returns for any block, and an installation
\* starts with an empty cache: right after md.use its hook answers every
\* notation block with the placeholder.
C18_InstallationsIsolated ==
  [][\A e \in Engines :
       /\ ActsOn(e) =>
            \A f \in Engines \ {e}, t \in TwoTokens : HookOnNext(f, t) = HookOn(f, t)
       /\ InstallsOn(e) =>
            /\ DOMAIN heap'[engines'[e].cache] = {}
            /\ \A t \in TwoTokens :
                 HookOnNext(e, t).value
                   = PendingFragment(trim(t.content), engines'[e].opts,
                                     TagOf(t, DefaultAliases).isPlayable)]_vars

\* engine 2 answers the block with the placeholder while engine 1 has the
\* block's text in its cache
C18_Witness ==
  /\ last.op = "fence"
  /\ last.engine = 2
  /\ engines[1].installed
  /\ engines[2].installed
  /\ trim(last.arg.content) \in DOMAIN CacheOf(1)
  /\ DOMAIN CacheOf(2) = {}
  /\ last.out.value = PendingFragment(trim(last.arg.content), engines[2].opts,
                                      TagOf(last.arg, DefaultAliases).isPlayable)

(***************************************************************************)
(* parseLanguageTag under configured alias lists.                          *)
(***************************************************************************)
AliasLists ==
  {<<<<"L", "Y", "L">>>>, <<Str_lyl>>, <<<<"L", "y", "l">>, Str_lilylet>>}

InitAlias ==
  /\ Idle
  /\ last \in {[op |-> "input", arg |-> [info |-> s, aliases |-> a]] :
                 s \in TagInputs, a \in AliasLists}

ApplyAlias ==
  /\ last.op = "input"
  /\ last' = [op |-> "parseLanguageTag", arg |-> last.arg,
              out |-> parseLanguageTag(last.arg.info, last.arg.aliases)]
  /\ UNCHANGED Rest

SpecAlias == InitAlias /\ [][ApplyAlias]_vars

\* C19: under every configured alias list, an info string that equals one of
\* the aliases, or an alias followed by ".play", up to letter case is
\* classified as notation; with the alias list ["LYL"] the tags "LYL", "lyl"
\* and "Lyl.play" are notation.
C19_AliasesCaseInsensitive ==
  last.op = "parseLanguageTag" =>
    \A i \in 1..Len(last.arg.aliases) :
      LET a == toLowerCase(last.arg.aliases[i])
          s == toLowerCase(last.arg.info)
      IN (s = a \/ s = a \o DotPlay) => last.out.isLilylet

(***************************************************************************)
(* The options argument of prerender, checked under SpecSweep.             *)
(***************************************************************************)
\* the step is a prerender call that awaits a first block
SweepBegins == ~sweep.active /\ sweep'.active

\* C20: every fragment in an installation's cache is produced with the
\* configuration resolved at install time, which no call changes.  Of the
\* options given to prerender only langAliases has an effect: it selects
\* the blocks; a prerender call with other options and the same aliases
\* makes the same step.  On an engine without the plugin prerender awaits
\* no render, writes nothing and resolves without error.
C20_PrerenderOptionsIgnored ==
  [][/\ installed => opts' = opts
     /\ \A T \in DOMAIN renderCache' :
          renderCache'[T] \in {renderLilylet(T, opts', e).value : e \in SweepEnvs}
     /\ SweepBegins =>
          \E o \in SweepOptions :
            /\ Prerender(sweep'.doc, o)
            /\ sweep'.idx = NextBlock(sweep'.doc, 1, ResolveOptions(o).langAliases)
            /\ \A o2 \in SweepOptions :
                 ResolveOptions(o2).langAliases = ResolveOptions(o).langAliases
                   => Prerender(sweep'.doc, o2)
     /\ (~installed /\ ~installed') =>
          /\ renderCache' = renderCache
          /\ tasks' = <<>>
          /\ ~sweep'.active
          /\ last' = [op |-> "prerender", kind |-> "return"]]_vars

\* a prerender called with the alias js on an installation with the default
\* aliases and without a toolkit has cached its first block, tagged js, as
\* the installation renders it: the MEI container with the source attribute
C20_Witness ==
  /\ sweep.active
  /\ sweep.aliases = <<Str_js>>
  /\ sweep.idx = 2
  /\ sweep.doc[1].info = Str_js
  /\ ~opts.verovioToolkit.present
  /\ opts.includeSource
  /\ trim(sweep.doc[1].content) \in DOMAIN renderCache
  /\ renderCache[trim(sweep.doc[1].content)]
       = Container(trim(sweep.doc[1].content), DEFAULT_OPTIONS,
                   MeiOf([text |-> trim(sweep.doc[1].content)]), <<>>)

=============================================================================
